---- MODULE Spec2Model ----
(***************************************************************************)
(* The cache layer of the e-commerce backend: CacheService                 *)
(* (src/services/cache_service.py) running on the module-level             *)
(* UpstashRedisSync client (src/config/redis_config.py), together with the *)
(* two other users of that client, the rate limiter and the start-up       *)
(* health check (src/main.py); CacheService.build_key on its own; and the  *)
(* product and category services (src/services/product_service.py,         *)
(* category_service.py), which read and invalidate the cache around the    *)
(* relational Store.                                                       *)
(*                                                                         *)
(* The remote Upstash database is the only part that is not source code:   *)
(* it is modelled as a key -> string map that honours GET, SET (with an    *)
(* optional expiry) and DEL the way the client expects (its health check   *)
(* expects get to give back what set stored).  An HTTP request may fail;   *)
(* the client turns that into None / False.                                *)
(*                                                                         *)
(* Python values are records [t, s, n]: t is the type tag.  A cache key is *)
(* the sequence of its ':'-separated parts, and a pattern "p:*" is the     *)
(* sequence of the parts of p.                                             *)
(***************************************************************************)
EXTENDS Integers, Sequences, FiniteSets, TLC

\* ------------------------------------------------------------------ bounds
NCallers == 2
MaxRequests == 2
MaxOptions == 3

Callers == 1..NCallers

\* ------------------------------------------------------- program constants
RATE_LIMIT == 100
MAX_RETRIES == 3
DEFAULT_LIMIT == 100
CATEGORY_TTL == 3600
HEALTH_TTL == 5
DEFAULT_TTL == 300
TOO_MANY_REQUESTS == 429

\* ------------------------------------------------------------ Python values
None == [t |-> "None", s |-> "", n |-> 0]
PyStr(x) == [t |-> "str", s |-> x, n |-> 0]
PyInt(i) == [t |-> "int", s |-> "", n |-> i]
PyBool(b) == [t |-> "bool", s |-> "", n |-> IF b THEN 1 ELSE 0]
PyDict(x) == [t |-> "dict", s |-> x, n |-> 0]

\* What a callback passed to get_or_set may return (it may also raise).
CallbackValues == {PyDict("Toys"), PyStr("ok")}
\* Values handed to CacheService.set.
SetValues == {PyDict("Toys"), PyStr("ok")}
\* ttl arguments: 0 stands for None.
Ttls == {0, HEALTH_TTL}

\* ---------------------------------------------------------------- the keys
KRate == <<"rate_limit", "ip1">>
KHealth == <<"__healthcheck__">>
KProdId == <<"products", "id", "id", "1">>
KProdList == <<"products", "list", "limit", "100", "skip", "0">>
KCatId == <<"categories", "id", "id", "1">>
Entities == {"products", "categories"}
\* The emails of the client schemas handed to ClientService.save.
Emails == {"ana@example.com", "luis@example.com"}
Keys == {KRate, KHealth, KProdId, KProdList, KCatId}
\* The keys get_or_set is called with: one the database can hold, one it cannot.
GetOrSetKeys == {KHealth, KProdId}

\* "rate_limit:*", "products:list:*" (ProductService._invalidate_list_cache)
\* and "categories:*" (CategoryService._invalidate_all_cache).
Patterns == {<<"rate_limit">>, <<"products", "list">>, <<"categories">>}

\* k starts with the parts of p: k matches the glob "p:*".
Matches(k, p) == Len(p) <= Len(k) /\ SubSeq(k, 1, Len(p)) = p

VARIABLES
    cacheEnabled,   \* CacheService.enabled (REDIS_ENABLED == 'true')
    clientEnabled,  \* UpstashRedisSync.enabled (URL and token configured)
    store,          \* the remote database: key -> <<>> (absent) or <<string>>
    expiring,       \* the keys of the database that carry an expiry
    pc,             \* per caller: where it stands in a multi-step operation
    key,            \* per caller: the key of its running operation
    cur,            \* per caller: the count the rate limiter read
    cbn,            \* per caller: callback invocations of the running get_or_set
    sub,            \* per caller: redis_client uses of the running get_or_set
    reqs,           \* rate-limited requests started so far
    last,           \* the operation that completed last: its name, key, result
                    \* (res), how it ended (out), its callback invocations and
                    \* redis_client uses, and whether it changed the database
    bkCall,         \* build_key: the arguments of the call (prefix, args, kwargs)
    bkOut,          \* build_key: the key it returned, <<>> before the call
    db,             \* the relational Store: entity -> <<>> (no row 1) or <<name>>
    hasSales,       \* an order detail references product 1
    row,            \* per caller: the row its running get_one read from the
                    \* Store, or the email of its running ClientService.save
    clients,        \* the Store's clients table: email -> rows holding it
    admitted        \* requests of ip1 the rate limiter has let through since
                    \* its counter was created

vars == <<cacheEnabled, clientEnabled, store, expiring, pc, key, cur, cbn, sub,
          reqs, last, bkCall, bkOut, db, hasSales, row, clients, admitted>>

config == <<cacheEnabled, clientEnabled>>
\* What no step of the cache layer, the rate limiter or the health check
\* touches.
aside == <<clients, admitted>>
nonCache == <<bkCall, bkOut, db, hasSales, row, aside>>
locals == <<pc, key, cur, cbn, sub>>

\* str(n) of a count, and the counts the rate limiter can store.
Counts == 0..RATE_LIMIT
StrOfInt(n) == ToString(n)
CountTexts == {StrOfInt(n) : n \in Counts}
IsIntText(x) == x \in CountTexts
IntOfText(x) == CHOOSE n \in Counts : StrOfInt(n) = x

\* ----------------------------------------------- UpstashRedisSync (the client)
\* The methods the class defines.  CacheService and the rate limiter also use
\* setex, expire, incrby and ttl, which it lacks (an AttributeError), and
\* call set with nx= and ex=, which its signature (key, value, ttl) rejects
\* (a TypeError).
ClientMethods == {"get", "set", "delete", "keys", "flushdb", "is_available"}
ClientSetKeywords == {"ttl"}

\* UpstashRedisSync.get: the stored string, None when disabled, absent or when
\* the request fails (ok = FALSE).
ClientGet(k, ok) ==
    IF ~clientEnabled THEN None
    ELSE IF ok /\ store[k] # <<>> THEN PyStr(store[k][1]) ELSE None

\* UpstashRedisSync.set: the database after set(k, v, ttl), and what it returns.
StoreAfterSet(k, v, ok) ==
    IF clientEnabled /\ ok THEN [store EXCEPT ![k] = <<v>>] ELSE store

ExpiringAfterSet(k, ttl, ok) ==
    IF clientEnabled /\ ok
    THEN IF ttl # 0 THEN expiring \cup {k} ELSE expiring \ {k}
    ELSE expiring

ClientSetReturns(ok) == clientEnabled /\ ok

\* UpstashRedisSync.delete: the database after delete(k), and what it returns.
StoreAfterDelete(k, ok) ==
    IF clientEnabled /\ ok THEN [store EXCEPT ![k] = <<>>] ELSE store

ExpiringAfterDelete(k, ok) ==
    IF clientEnabled /\ ok THEN expiring \ {k} ELSE expiring

ClientDeleteReturns(ok) == clientEnabled /\ ok

\* UpstashRedisSync.keys: a stub, whatever the pattern and the database.
ClientKeys(p) == {}

\* UpstashRedisSync.flushdb: a stub, the database is left as it is.
ClientFlushdbReturns == FALSE

\* ------------------------------------------------------------- CacheService
\* CacheService.is_available: self.enabled and self.redis_client is not None;
\* get_redis_client() always returns the module-level client object.
RedisClientIsNone == FALSE
IsAvailable == cacheEnabled /\ ~RedisClientIsNone

\* json.dumps of the values of the model.
JsonDumps(v) ==
    CASE v.t = "dict" -> "{\"name\": \"" \o v.s \o "\"}"
      [] v.t = "int" -> StrOfInt(v.n)
      [] v.t = "str" -> "\"" \o v.s \o "\""
      [] OTHER -> "null"

\* CacheService.get, lines 50-53: json.loads(value), and the raw string when
\* it is not JSON.  The JSON texts of the model are the counts and the dumps
\* of the dict; "ok" (the health check's value) is not JSON.
IsJsonText(x) == IsIntText(x) \/ x = JsonDumps(PyDict("Toys"))

JsonLoads(x) == IF IsIntText(x) THEN PyInt(IntOfText(x)) ELSE PyDict("Toys")

\* A payload that is not JSON, taken for a miss.
JsonLoadsOrMiss(x) == IF IsJsonText(x) THEN JsonLoads(x) ELSE None

JsonLoadsOrRaw(x) == IF IsJsonText(x) THEN JsonLoads(x) ELSE PyStr(x)

\* CacheService.get(k).
CacheGet(k, ok) ==
    IF ~IsAvailable THEN None
    ELSE LET value == ClientGet(k, ok)
         IN  IF value = None THEN None ELSE JsonLoadsOrRaw(value.s)

\* How many times CacheService.get uses redis_client.
CacheGetUses == IF IsAvailable THEN 1 ELSE 0

\* CacheService.set(k, v, ttl): the text stored (a str as it is, anything else
\* through json.dumps), the ttl used, the database afterwards and the result.
\* redis_client.setex does not exist: the AttributeError is caught (line 72).
CacheSetText(v) == IF v.t = "str" THEN v.s ELSE JsonDumps(v)

CacheSetTtl(ttl) == IF ttl # 0 THEN ttl ELSE DEFAULT_TTL

CacheSetStores == IsAvailable /\ "setex" \in ClientMethods

CacheSetStore(k, v, ok) ==
    IF CacheSetStores THEN StoreAfterSet(k, CacheSetText(v), ok) ELSE store

CacheSetExpiring(k, ttl, ok) ==
    IF CacheSetStores THEN ExpiringAfterSet(k, CacheSetTtl(ttl), ok) ELSE expiring

CacheSetUses == IF IsAvailable THEN 1 ELSE 0

\* CacheService.delete(k): True whenever the cache is available, whatever the
\* client's delete returned.
CacheDeleteStoreNoCheck(k, ok) == StoreAfterDelete(k, ok)

CacheDeleteStore(k, ok) == IF IsAvailable THEN StoreAfterDelete(k, ok) ELSE store

CacheDeleteExpiring(k, ok) ==
    IF IsAvailable THEN ExpiringAfterDelete(k, ok) ELSE expiring

CacheDeleteUses == IF IsAvailable THEN 1 ELSE 0

\* CacheService.delete_pattern(p): the keys it deletes.  redis_client.delete
\* takes one key: with several the call is a TypeError, caught (line 105).
DeletePatternKeys(p) ==
    IF ~IsAvailable THEN {}
    ELSE LET keys == ClientKeys(p)
         IN  IF Cardinality(keys) = 1 THEN keys ELSE {}

DeletePatternStore(p, ok) ==
    IF clientEnabled /\ ok
    THEN [k \in Keys |-> IF k \in DeletePatternKeys(p) THEN <<>> ELSE store[k]]
    ELSE store

DeletePatternExpiring(p, ok) ==
    IF clientEnabled /\ ok THEN expiring \ DeletePatternKeys(p) ELSE expiring

DeletePatternReturns(p, ok) == PyBool(ClientDeleteReturns(ok))

DeletePatternUses(p) ==
    IF ~IsAvailable THEN 0 ELSE IF ClientKeys(p) # {} THEN 2 ELSE 1

\* CacheService.clear_all: flushdb's result is not looked at.
ClearAllReturns == IsAvailable /\ "flushdb" \in ClientMethods

ClearAllUses == IF IsAvailable THEN 1 ELSE 0

\* CacheService.increment / expire / get_ttl: incrby, expire and ttl do not
\* exist on the client; the AttributeError is caught and the failure value
\* returned.
IncrementReturns == None
ExpireReturns == PyBool(FALSE)
GetTtlReturns == None
MissingMethodUses == IF IsAvailable THEN 1 ELSE 0

\* ------------------------------------------------- CacheService.build_key
\* build_key(prefix, *args, **kwargs).  kwargs is a dict: the options in the
\* order the call wrote them, as a sequence of <<name, value>> pairs with
\* distinct names.  The positional parts are strings (str(arg) is arg), the
\* option values integers.
Prefixes == {"products", "categories"}
PositionalArgs == {<<>>, <<"list">>, <<"id">>}
OptionNames == {"id", "limit", "skip"}
OptionValues == {0, 1, 5, DEFAULT_LIMIT}
\* The option names in the order of Python's str comparison.
NamesInOrder == <<"id", "limit", "skip">>
NameRank(n) == CHOOSE i \in 1..Len(NamesInOrder) : NamesInOrder[i] = n

Kwargs ==
    {kw \in UNION {[1..n -> OptionNames \X OptionValues] : n \in 0..MaxOptions} :
        \A i, j \in 1..Len(kw) : kw[i][1] = kw[j][1] => i = j}
BuildKeyCalls == [prefix : Prefixes, args : PositionalArgs, kwargs : Kwargs]

\* Python's comparison of two (name, value) tuples.
ItemLess(x, y) ==
    \/ NameRank(x[1]) < NameRank(y[1])
    \/ x[1] = y[1] /\ x[2] < y[2]

\* kwargs.items() taken in the order of the call, unsorted.
UnsortedItems(kwargs) == kwargs

\* sorted(kwargs.items()), line 215
RECURSIVE SortedItems(_)
SortedItems(kwargs) ==
    IF kwargs = <<>> THEN <<>>
    ELSE LET x == Head(kwargs)
             rest == SortedItems(Tail(kwargs))
             n == Cardinality({i \in 1..Len(rest) : ItemLess(rest[i], x)})
         IN  SubSeq(rest, 1, n) \o <<x>> \o SubSeq(rest, n + 1, Len(rest))

\* lines 215-216: parts.extend([k, str(v)]) for each item
RECURSIVE OptionParts(_)
OptionParts(items) ==
    IF items = <<>> THEN <<>>
    ELSE <<Head(items)[1], StrOfInt(Head(items)[2])>> \o OptionParts(Tail(items))

\* The key parts without the options.
KeyPartsNoOptions(prefix, args, kwargs) == <<prefix>> \o args

\* lines 210-216: the parts of the key
KeyParts(prefix, args, kwargs) ==
    <<prefix>> \o args \o OptionParts(SortedItems(kwargs))

\* ":".join(parts), line 218
RECURSIVE JoinColon(_)
JoinColon(parts) ==
    IF Len(parts) = 1 THEN parts[1]
    ELSE parts[1] \o ":" \o JoinColon(Tail(parts))

BuildKey(prefix, args, kwargs) == JoinColon(KeyParts(prefix, args, kwargs))

NotBuilt == <<>>

\* The calls the entity services make: build_key(prefix, "list", skip=s,
\* limit=l) in get_all and build_key(prefix, "id", id=i) in get_one, update
\* and delete.
ListCall(prefix, s, l) ==
    [prefix |-> prefix, args |-> <<"list">>,
     kwargs |-> <<<<"skip", s>>, <<"limit", l>>>>]
IdCall(prefix, i) ==
    [prefix |-> prefix, args |-> <<"id">>, kwargs |-> <<<<"id", i>>>>]
ServiceCalls ==
    {ListCall(e, s, l) : e \in Prefixes, s \in OptionValues, l \in OptionValues}
       \cup {IdCall(e, i) : e \in Prefixes, i \in OptionValues}

\* The record of a completed operation.
Done(o, k, r, out, nb, ns) ==
    [op |-> o, key |-> k, res |-> r, out |-> out, cbn |-> nb, sub |-> ns,
     chg |-> (store' # store \/ expiring' # expiring)]

\* get_or_set without its availability check.
GetOrSetDirectNoCheck == FALSE

\* CacheService.get_or_set, line 134: the cache is not consulted at all.
GetOrSetDirect == ~IsAvailable

\* CacheService.get_or_set, lines 144-146: redis_client.set(lock_key, "1",
\* nx=True, ex=self.lock_timeout).  The client's set takes (key, value, ttl):
\* the call is a TypeError, raised outside every try block of get_or_set.
LockCallAccepted == {"nx", "ex"} \subseteq ClientSetKeywords

NoKey == <<>>

InitCache ==
    /\ cacheEnabled \in BOOLEAN
    /\ clientEnabled \in BOOLEAN
    \* A fresh database, or one in which ip1 has already made RATE_LIMIT - 1
    \* counted requests (the state the limiter reaches after that many).
    /\ \E r \in {<<>>, <<StrOfInt(RATE_LIMIT - 1)>>} :
          /\ r # <<>> => clientEnabled
          /\ store = [k \in Keys |-> IF k = KRate THEN r ELSE <<>>]
    /\ expiring = {}
    /\ pc = [c \in Callers |-> "idle"]
    /\ key = [c \in Callers |-> NoKey]
    /\ cur = [c \in Callers |-> 0]
    /\ cbn = [c \in Callers |-> 0]
    /\ sub = [c \in Callers |-> 0]
    /\ reqs = 0
    /\ last = [op |-> "none", key |-> NoKey, res |-> None, out |-> "returned",
                cbn |-> 0, sub |-> 0, chg |-> FALSE]

\* The requests the counter of ip1 stands for: each was let through.
CountedBefore == IF store[KRate] = <<>> THEN 0 ELSE IntOfText(store[KRate][1])

\* No row in the Store, no order placed, no get_one running.
InitStore ==
    /\ db = [e \in Entities |-> <<>>]
    /\ hasSales = FALSE
    /\ row = [c \in Callers |-> <<>>]
    /\ clients = [email \in Emails |-> 0]

\* The start of the application; build_key("products", "id", id=1) not yet
\* called.
Init ==
    /\ InitCache
    /\ InitStore
    /\ bkCall = [prefix |-> "products", args |-> <<"id">>, kwargs |-> <<<<"id", 1>>>>]
    /\ bkOut = NotBuilt
    /\ admitted = CountedBefore

\* ---------------------------------------------------------------- actions
\* An operation that makes at most one request to the database is one step,
\* taken by any thread.  The callers are the threads inside an operation of
\* several steps (get_or_set, the rate limiter), which interleave with every
\* other step.
Idle(c) == pc[c] = "idle"

\* CacheService.get(k)
CacheGetOp(k) ==
    /\ UNCHANGED <<config, nonCache, store, expiring, locals, reqs>>
    /\ \E ok \in BOOLEAN :
          last' = Done("get", k, CacheGet(k, ok), "returned", 0, CacheGetUses)

\* CacheService.set(k, v, ttl)
CacheSetOp(k, v, ttl) ==
    /\ IF CacheSetStores
       THEN \E ok \in BOOLEAN :
               /\ store' = CacheSetStore(k, v, ok)
               /\ expiring' = CacheSetExpiring(k, ttl, ok)
       ELSE UNCHANGED <<store, expiring>>
    /\ last' = Done("set", k, PyBool(CacheSetStores), "returned", 0, CacheSetUses)
    /\ UNCHANGED <<config, nonCache, locals, reqs>>

\* CacheService.delete(k)
CacheDeleteOp(k) ==
    /\ \E ok \in BOOLEAN :
          /\ store' = CacheDeleteStore(k, ok)
          /\ expiring' = CacheDeleteExpiring(k, ok)
    /\ last' = Done("delete", k, PyBool(IsAvailable), "returned", 0, CacheDeleteUses)
    /\ UNCHANGED <<config, nonCache, locals, reqs>>

\* CacheService.delete_pattern(p + ":*")
CacheDeletePatternOp(p) ==
    /\ IF DeletePatternKeys(p) # {}
       THEN \E ok \in BOOLEAN :
               /\ store' = DeletePatternStore(p, ok)
               /\ expiring' = DeletePatternExpiring(p, ok)
               /\ last' = Done("delete_pattern", p, DeletePatternReturns(p, ok),
                               "returned", 0, DeletePatternUses(p))
       ELSE /\ UNCHANGED <<store, expiring>>
            /\ last' = Done("delete_pattern", p, PyInt(0), "returned", 0,
                            DeletePatternUses(p))
    /\ UNCHANGED <<config, nonCache, locals, reqs>>

\* CacheService.clear_all()
CacheClearAllOp ==
    /\ UNCHANGED <<config, nonCache, store, expiring, locals, reqs>>
    /\ last' = Done("clear_all", NoKey, PyBool(ClearAllReturns), "returned", 0,
                    ClearAllUses)

\* CacheService.increment(k), expire(k, ttl), get_ttl(k)
CacheIncrementOp(k) ==
    /\ UNCHANGED <<config, nonCache, store, expiring, locals, reqs>>
    /\ last' = Done("increment", k, IncrementReturns, "returned", 0, MissingMethodUses)

CacheExpireOp(k) ==
    /\ UNCHANGED <<config, nonCache, store, expiring, locals, reqs>>
    /\ last' = Done("expire", k, ExpireReturns, "returned", 0, MissingMethodUses)

CacheGetTtlOp(k) ==
    /\ UNCHANGED <<config, nonCache, store, expiring, locals, reqs>>
    /\ last' = Done("get_ttl", k, GetTtlReturns, "returned", 0, MissingMethodUses)

\* The callback called a second time.
CallbackCalledTwice == 1 + 1

\* get_or_set, line 135: "return callback()", one call.
DirectCallbackCalls == 1

\* CacheService.get_or_set(k, callback), lines 134-139: without the cache the
\* callback is called at once; with it, a hit is returned and a miss goes on
\* to the lock.
GetOrSetBegin(c, k) ==
    /\ Idle(c)
    /\ UNCHANGED <<config, nonCache, store, expiring, cur, reqs>>
    /\ IF GetOrSetDirect
       THEN /\ pc' = [pc EXCEPT ![c] = "gos_cb"]
            /\ key' = [key EXCEPT ![c] = k]
            /\ cbn' = [cbn EXCEPT ![c] = DirectCallbackCalls]
            /\ sub' = [sub EXCEPT ![c] = 0]
            /\ UNCHANGED last
       ELSE \E ok \in BOOLEAN :
              LET cached == CacheGet(k, ok)
              IN  IF cached # None
                  THEN /\ last' = Done("get_or_set", k, cached, "returned", 0,
                                       CacheGetUses)
                       /\ UNCHANGED <<pc, key, cbn, sub>>
                  ELSE /\ pc' = [pc EXCEPT ![c] = "gos_lock"]
                       /\ key' = [key EXCEPT ![c] = k]
                       /\ cbn' = [cbn EXCEPT ![c] = 0]
                       /\ sub' = [sub EXCEPT ![c] = CacheGetUses]
                       /\ UNCHANGED last

\* The callback's exception, swallowed.
CallbackRaiseSwallowed == "returned"

\* get_or_set, line 135: "return callback()" stands in no try block, so an
\* exception of the callback is the outcome of get_or_set.
CallbackRaiseOutcome == "CallbackError"

\* get_or_set, line 135: the callback called without the cache returns a value
\* or raises; either way that is the outcome of get_or_set.
GetOrSetCallbackEnds(c) ==
    /\ pc[c] = "gos_cb"
    /\ UNCHANGED <<config, nonCache, store, expiring, cur, reqs>>
    /\ \/ \E v \in CallbackValues :
            last' = Done("get_or_set", key[c], v, "returned", cbn[c], sub[c])
       \/ last' = Done("get_or_set", key[c], None, CallbackRaiseOutcome, cbn[c],
                       sub[c])
    /\ pc' = [pc EXCEPT ![c] = "idle"]
    /\ key' = [key EXCEPT ![c] = NoKey]
    /\ cbn' = [cbn EXCEPT ![c] = 0]
    /\ sub' = [sub EXCEPT ![c] = 0]

\* get_or_set, lines 143-146: the first lock attempt after a miss.  The call
\* is rejected by the client's signature and the TypeError leaves get_or_set.
GetOrSetAcquireLock(c) ==
    /\ pc[c] = "gos_lock"
    /\ ~LockCallAccepted
    /\ UNCHANGED <<config, nonCache, store, expiring, cur, reqs>>
    /\ last' = Done("get_or_set", key[c], None, "TypeError", cbn[c], sub[c] + 1)
    /\ pc' = [pc EXCEPT ![c] = "idle"]
    /\ key' = [key EXCEPT ![c] = NoKey]
    /\ cbn' = [cbn EXCEPT ![c] = 0]
    /\ sub' = [sub EXCEPT ![c] = 0]

\* ------------------------------------------------------ main.py, rate limiter
\* rate_limiter_sync, lines 46-61: read the counter of the client's IP.  An
\* absent counter is a first request (cur = 0: "1" is stored next); a counter
\* at the limit is answered 429; a text that is no integer raises ValueError,
\* which is caught and admits the request.
RateLimiterReadStep(c) ==
    /\ Idle(c)
    /\ reqs < MaxRequests
    /\ reqs' = reqs + 1
    /\ UNCHANGED <<config, bkCall, bkOut, db, hasSales, row, clients, store,
                   expiring, key, cbn, sub>>
    /\ \E ok \in BOOLEAN :
         LET current == ClientGet(KRate, ok)
         IN  IF current = None
             THEN /\ pc' = [pc EXCEPT ![c] = "rl_set"]
                  /\ cur' = [cur EXCEPT ![c] = 0]
                  /\ UNCHANGED last
             ELSE IF ~IsIntText(current.s)
             THEN /\ last' = Done("rate_limit", KRate, None, "returned", 0, 1)
                  /\ UNCHANGED <<pc, cur>>
             ELSE IF IntOfText(current.s) >= RATE_LIMIT
             THEN /\ last' = Done("rate_limit", KRate, PyInt(TOO_MANY_REQUESTS),
                                  "returned", 0, 1)
                  /\ UNCHANGED <<pc, cur>>
             ELSE /\ pc' = [pc EXCEPT ![c] = "rl_set"]
                  /\ cur' = [cur EXCEPT ![c] = IntOfText(current.s)]
                  /\ UNCHANGED last

\* The same, in a run that does not count the admitted requests.
RateLimiterRead(c) == RateLimiterReadStep(c) /\ UNCHANGED admitted

\* rate_limiter_sync, lines 50-52 and 64-72: store the new count, then call
\* redis_client.expire, which the client lacks: the AttributeError is caught
\* and the request admitted.  The counter is stored without an expiry.
RateLimiterWriteStep(c) ==
    /\ pc[c] = "rl_set"
    /\ \E ok \in BOOLEAN :
          /\ store' = StoreAfterSet(KRate, StrOfInt(cur[c] + 1), ok)
          /\ expiring' = ExpiringAfterSet(KRate, 0, ok)
    /\ last' = Done("rate_limit", KRate, None, "returned", 0, 3)
    /\ pc' = [pc EXCEPT ![c] = "idle"]
    /\ cur' = [cur EXCEPT ![c] = 0]
    /\ UNCHANGED <<config, bkCall, bkOut, db, hasSales, row, clients, key, cbn,
                   sub, reqs>>

RateLimiterWrite(c) == RateLimiterWriteStep(c) /\ UNCHANGED admitted

\* check_redis_connection -> UpstashRedisSync.is_available: set the test key
\* with a ttl of 5 and read it back.
HealthCheck ==
    /\ \E okSet, okGet \in BOOLEAN :
          /\ store' = StoreAfterSet(KHealth, "ok", okSet)
          /\ expiring' = ExpiringAfterSet(KHealth, HEALTH_TTL, okSet)
          /\ last' = Done("health", KHealth,
                          PyBool(clientEnabled /\ okGet /\ store'[KHealth] = <<"ok">>),
                          "returned", 0, IF clientEnabled THEN 2 ELSE 0)
    /\ UNCHANGED <<config, nonCache, locals, reqs>>

\* The database drops a key whose expiry has passed.
ExpireKey(k) ==
    /\ k \in expiring
    /\ store' = [store EXCEPT ![k] = <<>>]
    /\ expiring' = expiring \ {k}
    /\ UNCHANGED <<config, nonCache, locals, reqs, last>>

Next ==
    \/ \E k \in Keys : CacheGetOp(k)
    \/ \E k \in Keys, v \in SetValues, ttl \in Ttls : CacheSetOp(k, v, ttl)
    \/ \E k \in Keys : CacheDeleteOp(k)
    \/ \E p \in Patterns : CacheDeletePatternOp(p)
    \/ CacheClearAllOp
    \/ \E k \in Keys : CacheIncrementOp(k)
    \/ \E k \in Keys : CacheExpireOp(k)
    \/ \E k \in Keys : CacheGetTtlOp(k)
    \/ \E c \in Callers, k \in GetOrSetKeys : GetOrSetBegin(c, k)
    \/ \E c \in Callers : GetOrSetCallbackEnds(c)
    \/ \E c \in Callers : GetOrSetAcquireLock(c)
    \/ \E c \in Callers : RateLimiterRead(c)
    \/ \E c \in Callers : RateLimiterWrite(c)
    \/ HealthCheck
    \/ \E k \in Keys : ExpireKey(k)

Spec == Init /\ [][Next]_vars

\* ------------------------------------------------- the read side alone
\* get and get_or_set, over a database that only the health check writes and
\* expiry clears.
ReadNext ==
    \/ \E k \in Keys : CacheGetOp(k)
    \/ \E c \in Callers, k \in GetOrSetKeys : GetOrSetBegin(c, k)
    \/ \E c \in Callers : GetOrSetCallbackEnds(c)
    \/ \E c \in Callers : GetOrSetAcquireLock(c)
    \/ HealthCheck
    \/ \E k \in Keys : ExpireKey(k)

ReadSpec == Init /\ [][ReadNext]_vars

\* ------------------------------------------------ the rate limiter alone
\* The requests of ip1, with the ones let through counted.  A request that
\* ends at the read is let through unless it is answered 429; one that goes
\* on to the write is always let through, and the count starts anew with a
\* write that finds no counter.
CountedRead(c) ==
    /\ RateLimiterReadStep(c)
    /\ admitted' = IF pc'[c] = "idle" /\ last'.res = None
                   THEN admitted + 1 ELSE admitted

CountedWrite(c) ==
    /\ RateLimiterWriteStep(c)
    /\ admitted' = IF store[KRate] # <<>> THEN admitted + 1
                   ELSE IF store'[KRate] # <<>> THEN 1 ELSE 0

RateNext ==
    \/ \E c \in Callers : CountedRead(c)
    \/ \E c \in Callers : CountedWrite(c)
    \/ HealthCheck
    \/ \E k \in Keys : ExpireKey(k)

RateSpec == Init /\ [][RateNext]_vars

\* The database drops every key whose expiry has passed, and a request that
\* has read the counter goes on to its write.
RateFairSpec ==
    /\ Init
    /\ [][RateNext]_vars
    /\ \A k \in Keys : WF_vars(ExpireKey(k))
    /\ \A c \in Callers : WF_vars(CountedWrite(c))

\* ------------------------------------------------------- build_key alone
\* Any call of build_key, and the call itself.
KeyInit ==
    /\ InitCache
    /\ InitStore
    /\ bkCall \in BuildKeyCalls
    /\ bkOut = NotBuilt
    /\ admitted = CountedBefore

BuildKeyOp ==
    /\ bkOut = NotBuilt
    /\ bkOut' = <<BuildKey(bkCall.prefix, bkCall.args, bkCall.kwargs)>>
    /\ UNCHANGED <<config, aside, store, expiring, locals, reqs, last, bkCall, db,
                   hasSales, row>>

KeyNext == BuildKeyOp

KeySpec == KeyInit /\ [][KeyNext]_vars

\* ------------------------------------- ProductService and CategoryService
\* The two services over the Store.  BaseServiceImpl and the repositories are
\* the relational Store: one table per entity, here with the single id 1;
\* get_one, update and delete of an absent row raise InstanceNotFoundError,
\* and any Store call may fail with a database error.
RowNames == {"Toys", "Games"}

\* build_key(self.cache_prefix, "id", id=1)
IdKey(e) == IF e = "products" THEN KProdId ELSE KCatId
EntityOf(k) == k[1]

\* _invalidate_list_cache: "products:list:*"; _invalidate_all_cache:
\* "categories:*".
InvalidationPattern(e) ==
    IF e = "products" THEN <<"products", "list">> ELSE <<"categories">>

\* The ttl handed to cache.set: none by ProductService, cache_ttl by
\* CategoryService.
ServiceTtl(e) == IF e = "products" THEN 0 ELSE CATEGORY_TTL

\* Whether the service also deletes the id key on update and delete.
DeletesIdKey(e) == e = "products"

\* The Store has no row for the entity's id.
StoreMissing(e) == db[e] = <<>>

\* get_one with the Store's "not found" ignored.
GetOneNeverMissing(e) == FALSE

\* get_one: super().get_one(id_key) raises when the Store has no such row.
GetOneMissing(e) == StoreMissing(e)

\* delete without the sales check.
DeleteNeverBlocked(e) == FALSE

\* ProductService.delete, lines 106-118: an order detail references the
\* product.  CategoryService.delete has no such check.
DeleteBlocked(e) == e = "products" /\ hasSales

\* What a cached value is worth to get_one: ProductService takes a dict and
\* ignores anything else; CategoryService passes whatever it got to
\* CategorySchema(**safe), which raises TypeError on anything but a dict.
CachedUsable(e, cached) == cached # None /\ cached.t = "dict"
CachedRaises(e, cached) == e = "categories" /\ cached # None /\ cached.t # "dict"

\* get_one, the cache read.
SvcGetOneBegin(c, e) ==
    /\ Idle(c)
    /\ UNCHANGED <<config, aside, store, expiring, cur, cbn, reqs, bkCall, bkOut, db,
                   hasSales, row>>
    /\ \E ok \in BOOLEAN :
         LET cached == CacheGet(IdKey(e), ok)
         IN  IF CachedUsable(e, cached)
             THEN /\ last' = Done("svc_get_one", IdKey(e), cached, "returned", 0,
                                  CacheGetUses)
                  /\ UNCHANGED <<pc, key, sub>>
             ELSE IF CachedRaises(e, cached)
             THEN /\ last' = Done("svc_get_one", IdKey(e), None, "TypeError", 0,
                                  CacheGetUses)
                  /\ UNCHANGED <<pc, key, sub>>
             ELSE /\ pc' = [pc EXCEPT ![c] = "svc_load"]
                  /\ key' = [key EXCEPT ![c] = IdKey(e)]
                  /\ sub' = [sub EXCEPT ![c] = CacheGetUses]
                  /\ UNCHANGED last

\* get_one, the Store query after a miss.
SvcGetOneLoad(c) ==
    /\ pc[c] = "svc_load"
    /\ UNCHANGED <<config, aside, store, expiring, cur, cbn, reqs, bkCall, bkOut, db,
                   hasSales>>
    /\ IF GetOneMissing(EntityOf(key[c]))
       THEN /\ last' = Done("svc_get_one", key[c], None, "NotFound", 0, sub[c])
            /\ pc' = [pc EXCEPT ![c] = "idle"]
            /\ key' = [key EXCEPT ![c] = NoKey]
            /\ sub' = [sub EXCEPT ![c] = 0]
            /\ UNCHANGED row
       ELSE /\ row' = [row EXCEPT ![c] = db[EntityOf(key[c])]]
            /\ pc' = [pc EXCEPT ![c] = "svc_set"]
            /\ UNCHANGED <<key, sub, last>>

\* get_one, cache.set(cache_key, model_dump()) and the return.
SvcGetOneCache(c) ==
    /\ pc[c] = "svc_set"
    /\ LET e == EntityOf(key[c])
           v == IF row[c] = <<>> THEN None ELSE PyDict(row[c][1])
       IN  /\ IF CacheSetStores
              THEN \E ok \in BOOLEAN :
                      /\ store' = CacheSetStore(key[c], v, ok)
                      /\ expiring' = CacheSetExpiring(key[c], ServiceTtl(e), ok)
              ELSE UNCHANGED <<store, expiring>>
           /\ last' = Done("svc_get_one", key[c], v, "returned", 0,
                           sub[c] + CacheSetUses)
    /\ pc' = [pc EXCEPT ![c] = "idle"]
    /\ key' = [key EXCEPT ![c] = NoKey]
    /\ sub' = [sub EXCEPT ![c] = 0]
    /\ row' = [row EXCEPT ![c] = <<>>]
    /\ UNCHANGED <<config, aside, cur, cbn, reqs, bkCall, bkOut, db, hasSales>>

\* The cache calls that follow a Store write: cache.delete of the id key where
\* the service makes it (one request, which may fail), then delete_pattern.
InvalidatedStore(e, ok) ==
    LET afterDelete == IF DeletesIdKey(e) THEN CacheDeleteStore(IdKey(e), ok)
                       ELSE store
        gone == IF clientEnabled /\ ok
                THEN DeletePatternKeys(InvalidationPattern(e)) ELSE {}
    IN  [k \in Keys |-> IF k \in gone THEN <<>> ELSE afterDelete[k]]

InvalidatedExpiring(e, ok) ==
    LET afterDelete == IF DeletesIdKey(e) THEN CacheDeleteExpiring(IdKey(e), ok)
                       ELSE expiring
        gone == IF clientEnabled /\ ok
                THEN DeletePatternKeys(InvalidationPattern(e)) ELSE {}
    IN  afterDelete \ gone

InvalidationUses(e) ==
    (IF DeletesIdKey(e) THEN CacheDeleteUses ELSE 0)
       + DeletePatternUses(InvalidationPattern(e))

\* The cache calls of a write, run whether or not the Store call raised.
RunsInvalidationAlways(wrote) == TRUE

\* save, update, delete: the cache calls are the statements after the
\* super() call and in no finally block: they run only when it returned.
RunsInvalidation(wrote) == wrote

\* How a write whose Store call raised ends: with the Store's not-found
\* error, or with whatever other error the database gave (storeOk false).
StoreErrorOf(storeOk) == IF storeOk THEN "NotFound" ELSE "StoreError"

\* save(schema): the row is created, then the list pages (products) or the
\* whole prefix (categories) are invalidated.  The id key is not deleted.
SvcSave(e, n, storeOk) ==
    /\ StoreMissing(e)
    /\ db' = IF storeOk THEN [db EXCEPT ![e] = <<n>>] ELSE db
    /\ IF RunsInvalidation(storeOk) /\ DeletePatternKeys(InvalidationPattern(e)) # {}
       THEN \E ok \in BOOLEAN :
               /\ store' = DeletePatternStore(InvalidationPattern(e), ok)
               /\ expiring' = DeletePatternExpiring(InvalidationPattern(e), ok)
       ELSE UNCHANGED <<store, expiring>>
    /\ last' = Done("svc_save", IdKey(e), IF storeOk THEN PyDict(n) ELSE None,
                    IF storeOk THEN "returned" ELSE "StoreError", 0,
                    IF RunsInvalidation(storeOk)
                    THEN DeletePatternUses(InvalidationPattern(e)) ELSE 0)
    /\ UNCHANGED <<config, aside, locals, reqs, bkCall, bkOut, hasSales, row>>

\* update(id_key, schema): the Store write, then the cache calls; an
\* exception of the Store is logged and raised again.
SvcUpdate(e, n, storeOk) ==
    /\ LET wrote == storeOk /\ ~StoreMissing(e)
       IN  /\ db' = IF wrote THEN [db EXCEPT ![e] = <<n>>] ELSE db
           /\ IF RunsInvalidation(wrote)
              THEN \E ok \in BOOLEAN :
                      /\ store' = InvalidatedStore(e, ok)
                      /\ expiring' = InvalidatedExpiring(e, ok)
              ELSE UNCHANGED <<store, expiring>>
           /\ last' = Done("svc_update", IdKey(e),
                           IF wrote THEN PyDict(n) ELSE None,
                           IF wrote THEN "returned" ELSE StoreErrorOf(storeOk), 0,
                           IF RunsInvalidation(wrote) THEN InvalidationUses(e)
                           ELSE 0)
    /\ UNCHANGED <<config, aside, locals, reqs, bkCall, bkOut, hasSales, row>>

\* delete(id_key): ProductService first looks for an order detail of the
\* product and raises ValueError when there is one; then the Store delete and
\* the cache calls.
SvcDelete(e, storeOk) ==
    /\ IF DeleteBlocked(e)
       THEN /\ UNCHANGED <<db, store, expiring>>
            /\ last' = Done("svc_delete", IdKey(e), None, "ValueError", 0, 0)
       ELSE LET wrote == storeOk /\ ~StoreMissing(e)
            IN  /\ db' = IF wrote THEN [db EXCEPT ![e] = <<>>] ELSE db
                /\ IF RunsInvalidation(wrote)
                   THEN \E ok \in BOOLEAN :
                           /\ store' = InvalidatedStore(e, ok)
                           /\ expiring' = InvalidatedExpiring(e, ok)
                   ELSE UNCHANGED <<store, expiring>>
                /\ last' = Done("svc_delete", IdKey(e), None,
                                IF wrote THEN "returned"
                                ELSE StoreErrorOf(storeOk), 0,
                                IF RunsInvalidation(wrote)
                                THEN InvalidationUses(e) ELSE 0)
    /\ UNCHANGED <<config, aside, locals, reqs, bkCall, bkOut, hasSales, row>>

\* An order with a detail line for product 1 is placed.
PlaceOrder ==
    /\ ~StoreMissing("products")
    /\ ~hasSales
    /\ hasSales' = TRUE
    /\ UNCHANGED <<config, aside, store, expiring, locals, reqs, last, bkCall, bkOut,
                   db, row>>

SvcNext ==
    \/ \E c \in Callers, e \in Entities : SvcGetOneBegin(c, e)
    \/ \E c \in Callers : SvcGetOneLoad(c)
    \/ \E c \in Callers : SvcGetOneCache(c)
    \/ \E e \in Entities, n \in RowNames : SvcSave(e, n, TRUE)
    \/ \E e \in Entities, n \in RowNames : SvcUpdate(e, n, TRUE)
    \/ \E e \in Entities : SvcDelete(e, TRUE)
    \/ PlaceOrder

\* The reads and writes of the two services over a database that answers
\* every query (a missing row is its only error).
SvcSpec == Init /\ [][SvcNext]_vars

\* The writes alone, over a database whose calls may also fail.
WriteNext ==
    \/ \E e \in Entities, n \in RowNames, storeOk \in BOOLEAN :
          SvcSave(e, n, storeOk)
    \/ \E e \in Entities, n \in RowNames, storeOk \in BOOLEAN :
          SvcUpdate(e, n, storeOk)
    \/ \E e \in Entities, storeOk \in BOOLEAN : SvcDelete(e, storeOk)
    \/ PlaceOrder

WriteSpec == Init /\ [][WriteNext]_vars

\* ----------------------------------------------------------- ClientService
\* ClientService.save(schema).  The clients table is, per email, the number
\* of its rows holding that email.  The repository and ClientModel are not
\* part of the sources: whether the table refuses a second row for an email
\* is not known, so an insert that finds the email present either adds the
\* row or raises the database's integrity error.
\* save, line 20: existing = self.repository.get_by_email(schema.email); an
\* existing client is returned and nothing is inserted (lines 22-24).
ClientSaveCheck(c, email) ==
    /\ Idle(c)
    /\ UNCHANGED <<config, store, expiring, key, cur, cbn, sub, reqs, bkCall,
                   bkOut, db, hasSales, clients, admitted>>
    /\ IF clients[email] > 0
       THEN /\ last' = Done("client_save", NoKey, PyStr(email), "returned", 0, 0)
            /\ UNCHANGED <<pc, row>>
       ELSE /\ pc' = [pc EXCEPT ![c] = "cl_insert"]
            /\ row' = [row EXCEPT ![c] = <<email>>]
            /\ UNCHANGED last

\* save, line 27: return super().save(schema), the insert.
ClientSaveInsert(c) ==
    /\ pc[c] = "cl_insert"
    /\ UNCHANGED <<config, store, expiring, key, cur, cbn, sub, reqs, bkCall,
                   bkOut, db, hasSales, admitted>>
    /\ LET email == row[c][1]
       IN  \/ /\ clients' = [clients EXCEPT ![email] = @ + 1]
              /\ last' = Done("client_save", NoKey, PyStr(email), "returned", 0, 0)
           \/ /\ clients[email] > 0
              /\ UNCHANGED clients
              /\ last' = Done("client_save", NoKey, None, "IntegrityError", 0, 0)
    /\ pc' = [pc EXCEPT ![c] = "idle"]
    /\ row' = [row EXCEPT ![c] = <<>>]

ClientNext ==
    \/ \E c \in Callers, email \in Emails : ClientSaveCheck(c, email)
    \/ \E c \in Callers : ClientSaveInsert(c)

ClientSpec == Init /\ [][ClientNext]_vars

\* ------------------------------------------------------------- properties
CacheOps == {"get", "set", "delete", "delete_pattern", "clear_all", "increment",
             "expire", "get_ttl", "get_or_set"}

\* The miss / failure value of each operation other than get_or_set.
MissValue(o) ==
    CASE o \in {"get", "increment", "get_ttl"} -> None
      [] o = "delete_pattern" -> PyInt(0)
      [] OTHER -> PyBool(FALSE)

\* A step that ends a get_or_set call which found no entry for its key.
MissEnds(c) == pc[c] = "gos_lock" /\ pc'[c] = "idle"

\* Supporting facts: with the cache available no get_or_set call ever reaches
\* its callback, and nothing but the rate limiter and the health check ever
\* stores a key.
CallbackOnlyWithoutCache == \A c \in Callers : pc[c] = "gos_cb" => ~IsAvailable
OnlyDirectClientKeys == \A k \in Keys \ {KRate, KHealth} : store[k] = <<>>

\* C3 (read-through): a get_or_set call that ran on a miss with the cache in
\* use returns the callback's value v, and a get of the same key right after
\* it returns v.
C3_ReadThroughPopulates ==
    [][\A c \in Callers :
          (MissEnds(c) /\ clientEnabled) =>
             /\ last'.out = "returned"
             /\ last'.res \in CallbackValues
             /\ (CacheGet(last.key, TRUE))' = last'.res]_vars

\* C4 (invalidation completeness): once delete_pattern(p + ":*") has returned,
\* a get of any key that was stored under prefix p before it is a miss.
C4_InvalidationComplete ==
    [][\A p \in Patterns :
          CacheDeletePatternOp(p) =>
             \A k \in Keys :
                (Matches(k, p) /\ store[k] # <<>>) => (CacheGet(k, TRUE))' = None]_vars

\* C6 (no substrate failure escapes): no CacheService operation ends with an
\* exception raised by its use of redis_client; get_or_set ends with a value
\* or with the callback's own exception.
C6_NoSubstrateFailureEscapes ==
    last.op \in CacheOps =>
       IF last.op = "get_or_set"
       THEN last.out \in {"returned", "CallbackError"}
       ELSE last.out = "returned"

\* C7 (disabled-cache fallback): with is_available() false, get_or_set calls
\* the callback exactly once, ends with the callback's value or exception, and
\* never uses redis_client.
C7_DisabledFallback ==
    /\ \A c \in Callers :
          (pc[c] # "idle" /\ key[c] # NoKey /\ ~IsAvailable) =>
             (pc[c] = "gos_cb" /\ cbn[c] = 1 /\ sub[c] = 0)
    /\ (last.op = "get_or_set" /\ ~IsAvailable) =>
          /\ last.cbn = 1
          /\ last.sub = 0
          /\ \/ last.out = "returned" /\ last.res \in CallbackValues
             \/ last.out = "CallbackError"

C7_Witness ==
    /\ ~IsAvailable
    /\ clientEnabled
    /\ last.op = "get_or_set"
    /\ last.out = "returned"
    /\ last.res = PyDict("Toys")
    /\ last.cbn = 1

\* C8 (no-op when unavailable): with is_available() false, each of get, set,
\* delete, delete_pattern, clear_all, increment, expire and get_ttl returns its
\* miss / failure value, does not use redis_client and leaves the database as
\* it was.
C8_UnavailableNoOp ==
    (~IsAvailable /\ last.op \in CacheOps \ {"get_or_set"}) =>
       /\ last.res = MissValue(last.op)
       /\ last.out = "returned"
       /\ last.sub = 0
       /\ ~last.chg

C8_Witness ==
    /\ ~IsAvailable
    /\ clientEnabled
    /\ last.op = "delete"
    /\ last.res = PyBool(FALSE)
    /\ store[last.key] # <<>>

\* C9 (availability reflects the connection): whenever the client is not
\* configured (UpstashRedisSync.enabled is False), is_available() is False.
C9_AvailableOnlyIfConnected == ~clientEnabled => ~IsAvailable

\* A step that ends a get_or_set call in which the callback was called.
CallbackEnds(c) == pc[c] = "gos_cb" /\ pc'[c] = "idle"

\* C11 (callback exception): when the callback called by get_or_set does not
\* return a value but raises, get_or_set ends with that exception, and the
\* call has written nothing to the database.
C11_CallbackExceptionPropagates ==
    [][\A c \in Callers :
          (CallbackEnds(c) /\ last'.res \notin CallbackValues) =>
             /\ last'.out = "CallbackError"
             /\ last'.sub = 0
             /\ store' = store
             /\ expiring' = expiring]_vars

C11_Witness ==
    /\ last.op = "get_or_set"
    /\ last.key = KProdId
    /\ last.out = "CallbackError"
    /\ last.cbn = 1
    /\ store[KRate] # <<>>

\* C12 (bounded waiting): a get_or_set call that found no entry and did not
\* get the lock makes at most max_retries lock attempts, then calls the
\* callback itself and ends with the callback's value or exception.
C12_FallThroughAfterRetries ==
    [][\A c \in Callers :
          (MissEnds(c) /\ clientEnabled) =>
             /\ last'.sub - CacheGetUses <= MAX_RETRIES
             /\ last'.cbn = 1
             /\ last'.out \in {"returned", "CallbackError"}]_vars

\* The options of kw written in the order f.
Reordered(kw, f) == [i \in 1..Len(kw) |-> kw[f[i]]]

\* The parts of the options of kw, taken name by name in lexicographic order.
RECURSIVE PartsFrom(_, _)
PartsFrom(i, kw) ==
    IF i > Len(NamesInOrder) THEN <<>>
    ELSE LET here == {j \in 1..Len(kw) : kw[j][1] = NamesInOrder[i]}
         IN  (IF here = {} THEN <<>>
              ELSE LET j == CHOOSE j \in here : TRUE
                   IN  <<kw[j][1], StrOfInt(kw[j][2])>>)
             \o PartsFrom(i + 1, kw)

\* C13 (deterministic keys): the key build_key returns is the one it returns
\* for every other order of writing the same keyword options; it is the
\* prefix, the positional parts and then the options in lexicographic order
\* of their names, joined by ':'; build_key('categories', 'id', id=5) is
\* 'categories:id:id:5'.
C13_BuildKeyDeterministic ==
    bkOut # NotBuilt =>
       /\ \A f \in Permutations(1..Len(bkCall.kwargs)) :
             BuildKey(bkCall.prefix, bkCall.args, Reordered(bkCall.kwargs, f))
                = bkOut[1]
       /\ bkOut[1] = JoinColon(<<bkCall.prefix>> \o bkCall.args
                                 \o PartsFrom(1, bkCall.kwargs))
       /\ bkCall = [prefix |-> "categories", args |-> <<"id">>,
                    kwargs |-> <<<<"id", 5>>>>]
             => bkOut[1] = "categories:id:id:5"

C13_Witness ==
    /\ bkCall.kwargs = <<<<"skip", 0>>, <<"limit", DEFAULT_LIMIT>>>>
    /\ bkOut = <<"products:list:limit:100:skip:0">>

\* C14 (ttl expiry): right after set(k, v, ttl) with ttl >= 1 on an available
\* cache, get(k) returns v; once the ttl has elapsed and the database has
\* dropped the key, get(k) returns nothing.
C14_TtlExpiry ==
    [][/\ \A k \in Keys, v \in SetValues, ttl \in Ttls \ {0} :
             (CacheSetOp(k, v, ttl) /\ IsAvailable /\ clientEnabled) =>
                (CacheGet(k, TRUE))' = v
       /\ \A k \in Keys : ExpireKey(k) => (CacheGet(k, TRUE))' = None]_vars

\* The payload stored under k is not JSON.
Malformed(k) == store[k] # <<>> /\ ~IsJsonText(store[k][1])

C18_ReferencedDeleteRejected ==
    [][(hasSales /\ last'.op = "svc_delete" /\ SvcDelete("products", TRUE)) =>
          /\ last'.out = "ValueError"
          /\ last'.sub = 0
          /\ db' = db
          /\ store' = store
          /\ expiring' = expiring]_vars

C18_Witness ==
    /\ last.op = "svc_delete"
    /\ last.key = KProdId
    /\ last.out = "ValueError"
    /\ hasSales
    /\ db["products"] = <<"Toys">>
    /\ store[KRate] # <<>>

\* C19 (no negative caching): a get_one whose Store query finds no row ends
\* with the not-found error having made no cache call but its read, and the
\* database is as it was; a get_one whose Store query finds the row (one
\* created meanwhile included) returns that row.
C19_NotFoundNotCached ==
    [][\A c \in Callers :
          /\ (pc[c] = "svc_load" /\ SvcGetOneLoad(c)) =>
                IF StoreMissing(EntityOf(key[c]))
                THEN /\ pc'[c] = "idle"
                     /\ last'.out = "NotFound"
                     /\ last'.sub = CacheGetUses
                     /\ store' = store
                     /\ expiring' = expiring
                ELSE /\ pc'[c] = "svc_set"
                     /\ row'[c] = db[EntityOf(key[c])]
          /\ (pc[c] = "svc_set" /\ SvcGetOneCache(c)) =>
                /\ last'.out = "returned"
                /\ last'.res = PyDict(row[c][1])]_vars

C19_Witness ==
    /\ last.op = "svc_get_one"
    /\ last.key = KCatId
    /\ last.out = "NotFound"
    /\ last.sub = 1
    /\ clientEnabled
    /\ store[KCatId] = <<>>
    /\ store[KRate] # <<>>
    /\ db["categories"] = <<>>

\* The callers that have queried the Store for the row of key k and have not
\* yet returned.
StoreQueriers(k) == {c \in Callers : pc[c] = "svc_set" /\ key[c] = k}

\* C20 (stampede protection of reads): of N callers running get_one on the
\* same key that the cache does not hold, fewer than N query the Store.
C20_StampedeBounded ==
    \A e \in Entities : Cardinality(StoreQueriers(IdKey(e))) < NCallers

\* C22 (set/get round trip): right after set(k, v, ttl) on an available cache,
\* whatever the ttl, get(k) returns a value equal to v and of v's type.
C22_SetGetRoundTrip ==
    [][\A k \in Keys, v \in SetValues, ttl \in Ttls :
          (CacheSetOp(k, v, ttl) /\ IsAvailable /\ clientEnabled) =>
             (CacheGet(k, TRUE))' = v]_vars

\* C23 (rate limit under interleaving): while the counter of ip1 is live, no
\* more than 100 of its requests are let through.
C23_AtMostLimitAdmitted == admitted <= RATE_LIMIT

\* The counter of ip1 stands at the limit: its requests are answered 429.
Blocked == store[KRate] = <<StrOfInt(RATE_LIMIT)>>

\* Supporting fact: the counter of ip1 never carries an expiry.
RateKeyNeverExpires == KRate \notin expiring

\* C24 (the window ends): an IP blocked at the limit is let through again
\* once the expiry of its counter has passed: blocked leads to the counter
\* being gone.
C24_WindowEnds == Blocked ~> (store[KRate] = <<>>)

\* C25 (one client per email): the clients table never holds two rows for
\* one email, and a save that completes when the email is already present
\* returns the existing client without inserting.
C25_OneClientPerEmail ==
    [][/\ \A email \in Emails : clients'[email] <= 1
       /\ \A c \in Callers :
             (pc[c] = "cl_insert" /\ pc'[c] = "idle" /\ clients[row[c][1]] > 0) =>
                /\ clients' = clients
                /\ last'.out = "returned"]_vars

\* C26 (callback at most once): no get_or_set call invokes the callback more
\* than once; a call that returns a value it did not read from the cache (it
\* made no use of redis_client) has invoked it exactly once, and a call that
\* returns what it read from the cache has not invoked it.
C26_CallbackAtMostOnce ==
    /\ \A c \in Callers : cbn[c] <= 1
    /\ last.op = "get_or_set" =>
          /\ last.cbn <= 1
          /\ (last.out = "returned" /\ last.sub = 0) => last.cbn = 1
          /\ (last.out = "returned" /\ last.sub > 0) => last.cbn = 0

C26_Witness ==
    /\ last.op = "get_or_set"
    /\ last.key = KHealth
    /\ last.out = "returned"
    /\ last.res = PyStr("ok")
    /\ last.sub = 0
    /\ last.cbn = 1
    /\ \E c \in Callers : pc[c] = "gos_cb" /\ cbn[c] = 1

\* C28 (no key collisions): the key built for a call of an entity service is
\* built for no other such call (another skip/limit pair, another id, the id
\* form against the list form, the other entity), and it does not match the
\* invalidation pattern of the other entity.
C28_ServiceKeysDistinct ==
    (bkOut # NotBuilt /\ bkCall \in ServiceCalls) =>
       /\ \A other \in ServiceCalls :
             BuildKey(other.prefix, other.args, other.kwargs) = bkOut[1]
                => other = bkCall
       /\ \A e \in Entities \ {bkCall.prefix} :
             ~Matches(KeyParts(bkCall.prefix, bkCall.args, bkCall.kwargs),
                      InvalidationPattern(e))

C28_Witness ==
    /\ bkCall = IdCall("categories", 5)
    /\ bkOut = <<"categories:id:id:5">>

SvcWrites == {"svc_save", "svc_update", "svc_delete"}
StoreErrors == {"NotFound", "StoreError"}

\* C29 (failed write): a save, update or delete whose Store call raised ends
\* with that error, having made no cache call and leaving every entry of the
\* database as it was.
C29_FailedWriteLeavesCache ==
    (last.op \in SvcWrites /\ last.out \in StoreErrors) =>
       /\ last.sub = 0
       /\ ~last.chg
       /\ last.res = None

C29_Witness ==
    /\ last.op = "svc_update"
    /\ last.key = KProdId
    /\ last.out = "StoreError"
    /\ IsAvailable
    /\ clientEnabled
    /\ store[KRate] # <<>>
    /\ db["products"] = <<"Toys">>

====
